---- MODULE Spec2Model ----
(***************************************************************************)
(* Model of the retrieval core of rag-fixed-income-covenants:              *)
(* rag_system/vector_store.py (VectorStore over faiss.IndexFlatL2),        *)
(* rag_system/document.py (Document), rag_system/embedding_model.py and    *)
(* the cold-start download of lambda_handler.initialize_rag_system.        *)
(*                                                                         *)
(* Vectors are tuples of small naturals, distances are squared L2 sums     *)
(* (what IndexFlatL2 reports), faiss labels are 0-based with -1 for an     *)
(* unfilled result slot, Python list positions are kept 1-based as TLA+    *)
(* sequence indexes.                                                       *)
(***************************************************************************)
EXTENDS Integers, Sequences, FiniteSets, TLC

(***************************************************************************)
(* Bounds of the model.                                                    *)
(***************************************************************************)
MaxDim == 2
MaxText == 1
MaxDocs == 2
MaxBatch == 2
MaxK == 2
MaxForeign == 1
MaxLen == 4
MaxChunk == 3
MaxOverlap == 3
MaxWindows == 5
MaxSources == 2
MaxChunks == 2
MaxStored == 3
MaxRecords == 2
MaxQueue == 2

(* constants.py *)
CHUNK_SIZE == 1024
CHUNK_OVERLAP == 50

Dims == 1..MaxDim
Texts == 0..MaxText
Ks == 1..MaxK

(* vectors of dimension d with coordinates in the range of the encoder *)
Vectors(d) == [1..d -> 0..MaxText]

VARIABLES embedding_dim, index, documents, disk_index, disk_docs, last

(* TextChunker: its configuration, the text of the running chunk_text call, *)
(* the locals start and chunks, where the call stands, and for each window  *)
(* taken its start, for each chunk appended its place in the text.          *)
VARIABLES chunk_size, overlap, text, start, chunks, cpc, windows, spans

(* The extraction Lambda's surroundings: the job records of the DynamoDB   *)
(* table, the objects the handlers have put to S3, the messages sent to    *)
(* callback queues.                                                        *)
VARIABLES job_table, s3_objects, callback_queue

(* The Textract job a synchronous extraction polls, and where the poll is. *)
VARIABLES textract_job, poll

(* Callers of one VectorStore running at once: each thread's call and its  *)
(* position in it, whether the callers take turns, and who has the turn.   *)
VARIABLES threads, serialized, mutex

(* A save in progress: which of its two writes has been made. *)
VARIABLES save_state

storeVars == <<embedding_dim, index, documents, disk_index, disk_docs, last>>

lambdaVars == <<job_table, s3_objects, callback_queue>>

pollVars == <<textract_job, poll>>

threadVars == <<threads, serialized, mutex>>

chunkVars == <<chunk_size, overlap, text, start, chunks, cpc, windows, spans>>

vars == <<embedding_dim, index, documents, disk_index, disk_docs, last,
          chunk_size, overlap, text, start, chunks, cpc, windows, spans,
          job_table, s3_objects, callback_queue, textract_job, poll,
          threads, serialized, mutex, save_state>>

(***************************************************************************)
(* Helpers on sequences.                                                   *)
(***************************************************************************)
Min(a, b) == IF a < b THEN a ELSE b

SeqsUpTo(S, n) == UNION {[1..m -> S] : m \in 0..n}

RECURSIVE SumSq(_, _, _)
SumSq(a, b, i) ==
    IF i = 0 THEN 0
    ELSE (a[i] - b[i]) * (a[i] - b[i]) + SumSq(a, b, i - 1)

(* fvec_L2sqr: squared Euclidean distance of two vectors of one length *)
L2sqr(a, b) == SumSq(a, b, Len(a))

(***************************************************************************)
(* Document (document.py) and the embedding model (embedding_model.py).    *)
(* A text is a small natural; the sentence transformer is a fixed          *)
(* deterministic map from a text to a vector of the requested dimension.   *)
(***************************************************************************)
None == <<>>

encode(txt, d) == [i \in 1..d |-> (txt + i) % (MaxText + 1)]

Metadata(txt) == [source |-> "f", chunk_index |-> txt]

Document(content, metadata, embedding) ==
    [content |-> content, metadata |-> metadata, embedding |-> embedding]

(* The embedding of a document handed to add_documents: of the store's     *)
(* dimension, unset, or of any other dimension.                            *)
EmbeddingChoices(txt) == {None} \cup {encode(txt, d) : d \in Dims}

DocChoices ==
    {Document(t, Metadata(t), e) : <<t, e>> \in
        UNION {{<<t, e>> : e \in EmbeddingChoices(t)} : t \in Texts}}

Batches == SeqsUpTo(DocChoices, MaxBatch)

(***************************************************************************)
(* faiss.IndexFlatL2: d, and the stored vectors xb (ntotal = Len(xb)).     *)
(***************************************************************************)
IndexFlatL2(d) == [d |-> d, xb |-> <<>>]

ntotal(ix) == Len(ix.xb)

(* The largest distance two model vectors can have, and the value faiss    *)
(* leaves in an unfilled result slot (FLT_MAX, above every real distance). *)
MaxDist == MaxDim * MaxText * MaxText
FLT_MAX == MaxDist + 1

(* np.array([doc.embedding ...]).astype('float32'): a 2-D array (n, d)     *)
(* only when the batch is non-empty and every embedding is a vector of one *)
(* common length d; otherwise the conversion or the shape unpacking in     *)
(* index.add raises.  0 stands for "no 2-D shape".                         *)
MatrixDim(batch) ==
    IF Len(batch) = 0 THEN 0
    ELSE IF \A i \in 1..Len(batch) :
                /\ batch[i].embedding # None
                /\ Len(batch[i].embedding) = Len(batch[1].embedding)
         THEN Len(batch[1].embedding)
         ELSE 0

EmbeddingRows(batch) == [i \in 1..Len(batch) |-> batch[i].embedding]

(* index.add(embeddings): asserts the row length is index.d, then appends  *)
IndexAddAccepts(ix, batch) == MatrixDim(batch) # 0 /\ MatrixDim(batch) = ix.d

IndexAdd(ix, batch) == [ix EXCEPT !.xb = ix.xb \o EmbeddingRows(batch)]

(* Variant of Before: among equal distances the later position first.      *)
BeforeLaterFirst(ix, q, i, j) ==
    \/ L2sqr(q, ix.xb[i]) < L2sqr(q, ix.xb[j])
    \/ L2sqr(q, ix.xb[i]) = L2sqr(q, ix.xb[j]) /\ i > j

(* Rank of stored vector j (1-based) for query q: faiss keeps the k        *)
(* smallest by (distance, id) and reorders the heap by the same order.     *)
Before(ix, q, i, j) ==
    \/ L2sqr(q, ix.xb[i]) < L2sqr(q, ix.xb[j])
    \/ L2sqr(q, ix.xb[i]) = L2sqr(q, ix.xb[j]) /\ i < j

Rank(ix, q, j) == 1 + Cardinality({i \in 1..ntotal(ix) : Before(ix, q, i, j)})

(* Variant of IndexSearch: the farthest stored vector first.               *)
IndexSearchDescending(ix, q, k) ==
    [r \in 1..k |->
        IF r <= ntotal(ix)
        THEN LET j == CHOOSE j \in 1..ntotal(ix) :
                          Cardinality({i \in 1..ntotal(ix) :
                                          L2sqr(q, ix.xb[i]) > L2sqr(q, ix.xb[j])
                                          \/ (L2sqr(q, ix.xb[i]) = L2sqr(q, ix.xb[j])
                                              /\ i < j)}) = r - 1
             IN  [label |-> j - 1, distance |-> L2sqr(q, ix.xb[j])]
        ELSE [label |-> -1, distance |-> FLT_MAX]]

(* index.search(query, k): k slots of (label, distance); slot r holds the  *)
(* r-th nearest stored vector, or (-1, FLT_MAX) when fewer are stored.     *)
IndexSearch(ix, q, k) ==
    [r \in 1..k |->
        IF r <= ntotal(ix)
        THEN LET j == CHOOSE j \in 1..ntotal(ix) : Rank(ix, q, j) = r
             IN  [label |-> j - 1, distance |-> L2sqr(q, ix.xb[j])]
        ELSE [label |-> -1, distance |-> FLT_MAX]]

(***************************************************************************)
(* VectorStore.search                                                      *)
(***************************************************************************)
(* Python list indexing with a 0-based, possibly negative, index; the      *)
(* result is the 1-based position, 0 when the index is out of range.       *)
PyIndex(n, idx) ==
    IF idx >= 0 THEN (IF idx < n THEN idx + 1 ELSE 0)
    ELSE (IF n + idx >= 0 THEN n + idx + 1 ELSE 0)

(* the guard of the result loop *)
Keeps(docs, idx) == idx < Len(docs)

RECURSIVE CollectResults(_, _, _)
CollectResults(docs, slots, r) ==
    IF r = 0 THEN <<>>
    ELSE LET rest == CollectResults(docs, slots, r - 1)
             s == slots[r]
         IN  IF Keeps(docs, s.label)
             THEN Append(rest, [pos |-> PyIndex(Len(docs), s.label),
                                distance |-> s.distance])
             ELSE rest

(* search raises when the query length is not index.d (faiss assertion)    *)
(* or when a kept label indexes no document (IndexError).                  *)
SearchRaises(ix, docs, q, k) ==
    \/ Len(q) # ix.d
    \/ \E r \in 1..k :
          LET s == IndexSearch(ix, q, k)[r]
          IN  Keeps(docs, s.label) /\ PyIndex(Len(docs), s.label) = 0

(* The returned list: entry = (documents[pos], distance); pos is the       *)
(* identity of the returned Document object.                               *)
SearchResults(ix, docs, q, k) ==
    IF SearchRaises(ix, docs, q, k) THEN <<>>
    ELSE CollectResults(docs, IndexSearch(ix, q, k), k)

(***************************************************************************)
(* Persisted artifacts.                                                    *)
(***************************************************************************)
NoFile == [kind |-> "absent"]

(* faiss.write_index / read_index: d, ntotal and the vectors *)
IndexFile(ix) == [kind |-> "ok", d |-> ix.d, xb |-> ix.xb]

ReadIndex(f) == [d |-> f.d, xb |-> f.xb]

(* json.dump of the documents: one object per document, content and        *)
(* metadata only; the object is kept as its (key, value) pairs.            *)
JsonRecord(doc) ==
    <<<<"content", doc.content>>,
      <<"metadata", <<<<"source", doc.metadata.source>>,
                      <<"chunk_index", doc.metadata.chunk_index>>>>>>>>

DocsFile(docs) ==
    [kind |-> "ok", records |-> [i \in 1..Len(docs) |-> JsonRecord(docs[i])]]

MalformedFile == [kind |-> "malformed"]

(* json.load and the Document(...) construction of load: no embedding *)
FromRecord(rec) ==
    Document(rec[1][2],
             [source |-> rec[2][2][1][2], chunk_index |-> rec[2][2][2][2]],
             None)

(* Variant of LoadDocuments: the records in reverse order.                 *)
LoadDocumentsReversed(f) ==
    [i \in 1..Len(f.records) |-> FromRecord(f.records[Len(f.records) + 1 - i])]

LoadDocuments(f) == [i \in 1..Len(f.records) |-> FromRecord(f.records[i])]

(***************************************************************************)
(* State.                                                                  *)
(***************************************************************************)
NoCall == [op |-> "init", raised |-> FALSE]

(* no chunk_text call is running: the chunker of EmbeddingProcessor with    *)
(* its default configuration                                               *)
ChunkerIdle ==
    /\ chunk_size = CHUNK_SIZE
    /\ overlap = CHUNK_OVERLAP
    /\ text = <<>>
    /\ start = 0
    /\ chunks = <<>>
    /\ cpc = "idle"
    /\ windows = <<>>
    /\ spans = <<>>

(* no Lambda invocation, no poll, one caller at a time, no save under way *)
LambdaIdle ==
    /\ job_table = <<>>
    /\ s3_objects = {}
    /\ callback_queue = <<>>

PollIdle ==
    /\ textract_job = [status |-> "NONE"]
    /\ poll = [pc |-> "idle"]

ThreadsIdle ==
    /\ threads = <<>>
    /\ serialized = TRUE
    /\ mutex = 0

SaveIdle == save_state = [pc |-> "idle", torn |-> FALSE]

Init ==
    /\ embedding_dim \in Dims
    /\ index = IndexFlatL2(embedding_dim)
    /\ documents = <<>>
    /\ disk_index = NoFile
    /\ disk_docs = NoFile
    /\ last = NoCall
    /\ ChunkerIdle
    /\ LambdaIdle
    /\ PollIdle
    /\ ThreadsIdle
    /\ SaveIdle

(* VectorStore.__init__: a new store in a new process; the disk stays *)
Construct ==
    /\ index' = IndexFlatL2(embedding_dim)
    /\ documents' = <<>>
    /\ last' = [op |-> "construct", raised |-> FALSE]
    /\ UNCHANGED <<embedding_dim, disk_index, disk_docs>>
    /\ UNCHANGED chunkVars
    /\ UNCHANGED <<lambdaVars, pollVars, threadVars, save_state>>

(* VectorStore.add_documents: the array conversion and index.add raise     *)
(* before anything is stored; documents.extend follows index.add.          *)
AddRaises(ix, batch) == ~IndexAddAccepts(ix, batch)

(* Variant of Extend: the batch put in front of the stored documents.      *)
ExtendFront(docs, batch) == batch \o docs

Extend(docs, batch) == docs \o batch

(* every embedding of the batch has the dimension D *)
BatchValid(batch, D) ==
    \A i \in 1..Len(batch) : Len(batch[i].embedding) = D

AddDocuments(batch) ==
    /\ Len(documents) + Len(batch) <= MaxDocs
    /\ ntotal(index) + Len(batch) <= MaxDocs
    /\ index' = IF AddRaises(index, batch) THEN index ELSE IndexAdd(index, batch)
    /\ documents' = IF AddRaises(index, batch) THEN documents
                    ELSE Extend(documents, batch)
    /\ last' = [op |-> "add", raised |-> AddRaises(index, batch),
                n |-> Len(batch), valid |-> BatchValid(batch, embedding_dim)]
    /\ UNCHANGED <<embedding_dim, disk_index, disk_docs>>
    /\ UNCHANGED chunkVars
    /\ UNCHANGED <<lambdaVars, pollVars, threadVars, save_state>>

(* VectorStore.search: the list is returned to the caller, the store is   *)
(* left as it is.                                                          *)
Search(q, k) ==
    /\ last' = [op |-> "search", raised |-> SearchRaises(index, documents, q, k),
                q |-> q, k |-> k,
                results |-> SearchResults(index, documents, q, k)]
    /\ UNCHANGED <<embedding_dim, index, documents, disk_index, disk_docs>>
    /\ UNCHANGED chunkVars
    /\ UNCHANGED <<lambdaVars, pollVars, threadVars, save_state>>

(* Variant of Save: the embeddings are taken off the stored documents as   *)
(* they are serialised.                                                    *)
SaveDropsEmbeddings(fail) ==
    /\ disk_index' = IF fail = "write_index" THEN disk_index ELSE IndexFile(index)
    /\ disk_docs' = IF fail = "none" THEN DocsFile(documents) ELSE disk_docs
    /\ last' = [op |-> "save", raised |-> fail # "none"]
    /\ documents' = [i \in 1..Len(documents) |->
                        Document(documents[i].content, documents[i].metadata, None)]
    /\ UNCHANGED <<embedding_dim, index>>
    /\ UNCHANGED chunkVars
    /\ UNCHANGED <<lambdaVars, pollVars, threadVars, save_state>>

(* VectorStore.save: the index file, then the documents file.  fail names  *)
(* the write that raises, if any.                                          *)
SaveFailures == {"none", "write_index", "open_docs"}

Save(fail) ==
    /\ disk_index' = IF fail = "write_index" THEN disk_index ELSE IndexFile(index)
    /\ disk_docs' = IF fail = "none" THEN DocsFile(documents) ELSE disk_docs
    /\ last' = [op |-> "save", raised |-> fail # "none"]
    /\ UNCHANGED <<embedding_dim, index, documents>>
    /\ UNCHANGED chunkVars
    /\ UNCHANGED <<lambdaVars, pollVars, threadVars, save_state>>

(* VectorStore.load: self.index is assigned first, self.documents after    *)
(* the documents file has been opened and parsed.                          *)
ReadIndexRaises(f) == f.kind # "ok"

ReadDocsRaises(f) == f.kind # "ok"

Load ==
    /\ index' = IF ReadIndexRaises(disk_index) THEN index ELSE ReadIndex(disk_index)
    /\ documents' = IF ReadIndexRaises(disk_index) \/ ReadDocsRaises(disk_docs)
                    THEN documents ELSE LoadDocuments(disk_docs)
    /\ last' = [op |-> "load",
                raised |-> ReadIndexRaises(disk_index) \/ ReadDocsRaises(disk_docs)]
    /\ UNCHANGED <<embedding_dim, disk_index, disk_docs>>
    /\ UNCHANGED chunkVars
    /\ UNCHANGED <<lambdaVars, pollVars, threadVars, save_state>>

(* initialize_rag_system: the two artifacts are downloaded from object     *)
(* storage, where a store of any dimension may have put them; the          *)
(* documents artifact may be one that does not parse.                      *)
StoredDocs(texts, d) ==
    [i \in 1..Len(texts) |-> Document(texts[i], Metadata(texts[i]), encode(texts[i], d))]

Download(d, texts, docsKind) ==
    /\ disk_index' = IndexFile(IndexAdd(IndexFlatL2(d), StoredDocs(texts, d)))
    /\ disk_docs' = IF docsKind = "ok" THEN DocsFile(StoredDocs(texts, d))
                    ELSE MalformedFile
    /\ last' = [op |-> "download", raised |-> FALSE]
    /\ UNCHANGED <<embedding_dim, index, documents>>
    /\ UNCHANGED chunkVars
    /\ UNCHANGED <<lambdaVars, pollVars, threadVars, save_state>>

Next ==
    \/ Construct
    \/ \E batch \in Batches : AddDocuments(batch)
    \/ \E q \in Vectors(embedding_dim), k \in Ks : Search(q, k)
    \/ \E fail \in SaveFailures : Save(fail)
    \/ Load
    \/ \E d \in Dims, texts \in SeqsUpTo(Texts, MaxForeign),
          docsKind \in {"ok", "malformed"} : Download(d, texts, docsKind)

Spec == Init /\ [][Next]_vars


(***************************************************************************)
(* TextChunker (text_chunker.py).  A text is a sequence of characters, the *)
(* blank being the whitespace; positions in the text are 0-based as in     *)
(* the code.                                                               *)
(***************************************************************************)
Chars == {" ", "a", "b"}

IsSpace(c) == c = " "

Max(a, b) == IF a > b THEN a ELSE b

(* Python's text[a:b]: a negative bound counts from the end, both bounds   *)
(* are clipped to the text.                                                *)
SliceBound(n, x) == IF x < 0 THEN Max(n + x, 0) ELSE Min(x, n)

PySlice(t, a, b) ==
    IF SliceBound(Len(t), a) >= SliceBound(Len(t), b) THEN <<>>
    ELSE SubSeq(t, SliceBound(Len(t), a) + 1, SliceBound(Len(t), b))

RECURSIVE LStrip(_)
LStrip(s) ==
    IF s = <<>> THEN s ELSE IF IsSpace(Head(s)) THEN LStrip(Tail(s)) ELSE s

RECURSIVE RStrip(_)
RStrip(s) ==
    IF s = <<>> THEN s
    ELSE IF IsSpace(s[Len(s)]) THEN RStrip(SubSeq(s, 1, Len(s) - 1)) ELSE s

(* str.strip() *)
Strip(s) == RStrip(LStrip(s))

(* where the stripped window text[a:b] lies in the text: [from, to) *)
StripSpan(t, a, b) ==
    LET w == PySlice(t, a, b)
        lo == SliceBound(Len(t), a)
    IN  [from |-> lo + (Len(w) - Len(LStrip(w))),
         to |-> lo + Len(RStrip(w))]

(* return [text] *)
WholeTextStripped(t) == <<Strip(t)>>

WholeText(t) == <<t>>

(* end = start + self.chunk_size *)
WindowEndShort(s, size) == s + size - 1

WindowEnd(s, size) == s + size

(* start = end - self.overlap *)
NextStartNoOverlap(end, ov) == end

NextStartSkip(end, ov) == end - ov + 1

NextStart(end, ov) == end - ov

(* a call of chunk_text on a chunker of any configuration, and the call    *)
(* of the default chunker on a text of 2000 characters                     *)
ScenarioText == [i \in 1..2000 |-> "a"]

ChunkInit ==
    /\ embedding_dim = 1
    /\ index = IndexFlatL2(embedding_dim)
    /\ documents = <<>>
    /\ disk_index = NoFile
    /\ disk_docs = NoFile
    /\ last = NoCall
    /\ \/ /\ chunk_size \in 1..MaxChunk
          /\ overlap \in 0..MaxOverlap
          /\ text \in SeqsUpTo(Chars, MaxLen)
       \/ /\ chunk_size = CHUNK_SIZE
          /\ overlap = CHUNK_OVERLAP
          /\ text = ScenarioText
    /\ start = 0
    /\ chunks = <<>>
    /\ cpc = "call"
    /\ windows = <<>>
    /\ spans = <<>>
    /\ LambdaIdle
    /\ PollIdle
    /\ ThreadsIdle
    /\ SaveIdle

(* lines 20-24: the short text is returned whole, a longer one enters the  *)
(* loop at start = 0                                                       *)
ChunkCall ==
    /\ cpc = "call"
    /\ IF Len(text) <= chunk_size
       THEN /\ chunks' = WholeText(text)
            /\ spans' = <<[from |-> 0, to |-> Len(text)]>>
            /\ cpc' = "done"
       ELSE /\ chunks' = <<>>
            /\ spans' = <<>>
            /\ cpc' = "loop"
    /\ start' = 0
    /\ UNCHANGED <<chunk_size, overlap, text, windows>>
    /\ UNCHANGED storeVars
    /\ UNCHANGED <<lambdaVars, pollVars, threadVars, save_state>>

(* lines 26-33: one iteration of the while loop *)
ChunkWindow ==
    /\ cpc = "loop"
    /\ start < Len(text)
    /\ Len(windows) < MaxWindows
    /\ LET end == WindowEnd(start, chunk_size)
           chunk == PySlice(text, start, end)
       IN  /\ chunks' = IF Strip(chunk) # <<>> THEN Append(chunks, Strip(chunk))
                        ELSE chunks
           /\ spans' = IF Strip(chunk) # <<>>
                       THEN Append(spans, StripSpan(text, start, end))
                       ELSE spans
           /\ start' = NextStart(end, overlap)
    /\ windows' = Append(windows, start)
    /\ UNCHANGED <<chunk_size, overlap, text, cpc>>
    /\ UNCHANGED storeVars
    /\ UNCHANGED <<lambdaVars, pollVars, threadVars, save_state>>

(* lines 26, 35: the loop condition fails and chunks is returned *)
ChunkReturn ==
    /\ cpc = "loop"
    /\ ~(start < Len(text))
    /\ cpc' = "done"
    /\ UNCHANGED <<chunk_size, overlap, text, start, chunks, windows, spans>>
    /\ UNCHANGED storeVars
    /\ UNCHANGED <<lambdaVars, pollVars, threadVars, save_state>>

ChunkNext == ChunkCall \/ ChunkWindow \/ ChunkReturn

ChunkSpec == ChunkInit /\ [][ChunkNext]_vars

ChunkSpecFair == ChunkSpec /\ WF_vars(ChunkNext)

(***************************************************************************)
(* RAGSystem (rag_system/__init__.py), DocumentProcessor, BedrockLLM, and  *)
(* the embedding document of EmbeddingProcessor.                           *)
(***************************************************************************)
Paths == {"a.txt", "./b.pdf", "c.doc"}

(* str(Path(file_path)): the path without its leading "./" *)
StrPath(p) == IF p = "./b.pdf" THEN "b.pdf" ELSE p

(* Path(file_path).suffix *)
Suffix(p) ==
    IF StrPath(p) = "a.txt" THEN ".txt"
    ELSE IF StrPath(p) = "b.pdf" THEN ".pdf" ELSE ".doc"

SupportedSuffixes == {".pdf", ".txt", ".md"}

(* A source handed to ingest: its path, whether the loader can read it,    *)
(* the contents of the chunks the splitter cuts it into, and whether the   *)
(* embedding model fails on them.                                          *)
Source(p, exists, chunkTexts, embedFails) ==
    [path |-> p, exists |-> exists, chunks |-> chunkTexts, embed_fails |-> embedFails]

SourceChoices ==
    {Source(sc[1], TRUE, sc[2], FALSE) :
        sc \in {"a.txt", "./b.pdf"} \X SeqsUpTo(Texts, MaxChunks)} \cup
    {Source("a.txt", FALSE, <<>>, FALSE),
     Source("c.doc", TRUE, <<>>, FALSE),
     Source("./b.pdf", TRUE, <<0>>, TRUE)}

SourceLists == SeqsUpTo(SourceChoices, MaxSources)

(* DocumentProcessor.load_document *)
LoadDocumentRaises(src) == Suffix(src.path) \notin SupportedSuffixes \/ ~src.exists

(* Variant of LoadDocument: chunk_index counted from 1.                    *)
LoadDocumentOneBased(src) ==
    [i \in 1..Len(src.chunks) |->
        Document(src.chunks[i],
                 [source |-> StrPath(src.path), chunk_index |-> i], None)]

LoadDocument(src) ==
    [i \in 1..Len(src.chunks) |->
        Document(src.chunks[i],
                 [source |-> StrPath(src.path), chunk_index |-> i - 1], None)]

(* Variant of embed_batch: the vectors in reverse order.                   *)
embed_batch_reversed(texts, d) ==
    [i \in 1..Len(texts) |-> encode(texts[Len(texts) + 1 - i], d)]

(* EmbeddingModel.embed_batch: model.encode(texts), one row per text *)
embed_batch(texts, d) == [i \in 1..Len(texts) |-> encode(texts[i], d)]

(* for doc, embedding in zip(documents, embeddings): doc.embedding = ...   *)
ZipEmbeddings(docs, embeddings) ==
    [i \in 1..Min(Len(docs), Len(embeddings)) |->
        [docs[i] EXCEPT !.embedding = embeddings[i]]] \o
    SubSeq(docs, Min(Len(docs), Len(embeddings)) + 1, Len(docs))

(* the for loop of ingest_documents from source i on: the call raises at   *)
(* the first source whose load or embedding raises, else all_documents     *)
(* holds every source's documents in turn                                  *)
RECURSIVE IngestLoop(_, _, _, _)
IngestLoop(srcs, i, all_documents, d) ==
    IF i > Len(srcs) THEN [raised |-> FALSE, all_documents |-> all_documents]
    ELSE IF LoadDocumentRaises(srcs[i]) \/ srcs[i].embed_fails
         THEN [raised |-> TRUE, all_documents |-> all_documents]
         ELSE IngestLoop(srcs, i + 1,
                  all_documents \o
                      ZipEmbeddings(LoadDocument(srcs[i]),
                                    embed_batch([j \in 1..Len(srcs[i].chunks) |->
                                                    LoadDocument(srcs[i])[j].content], d)),
                  d)

(* Variant of IngestAdds: what the loop has collected is added even when   *)
(* a later source raised.                                                  *)
IngestAddsPartial(ix, run) == ~AddRaises(ix, run.all_documents)

(* line 49 is reached only when the loop has not raised *)
IngestRaises(ix, run) == run.raised \/ AddRaises(ix, run.all_documents)

IngestAdds(ix, run) == ~run.raised /\ ~AddRaises(ix, run.all_documents)

(* the number of chunks of the sources, for the bound on the store *)
RECURSIVE TotalChunks(_)
TotalChunks(srcs) ==
    IF srcs = <<>> THEN 0 ELSE Len(Head(srcs).chunks) + TotalChunks(Tail(srcs))

SourceFails(src) ==
    \/ ~src.exists
    \/ Suffix(src.path) \notin SupportedSuffixes
    \/ src.embed_fails

IngestDocuments(srcs) ==
    /\ Len(documents) + TotalChunks(srcs) <= MaxStored
    /\ LET run == IngestLoop(srcs, 1, <<>>, embedding_dim)
       IN  /\ index' = IF IngestAdds(index, run)
                       THEN IndexAdd(index, run.all_documents) ELSE index
           /\ documents' = IF IngestAdds(index, run)
                           THEN Extend(documents, run.all_documents) ELSE documents
           /\ last' = [op |-> "ingest", raised |-> IngestRaises(index, run),
                       failed |-> \E i \in 1..Len(srcs) : SourceFails(srcs[i]),
                       paths |-> [i \in 1..Len(srcs) |-> srcs[i].path],
                       counts |-> [i \in 1..Len(srcs) |-> Len(srcs[i].chunks)]]
    /\ UNCHANGED <<embedding_dim, disk_index, disk_docs>>
    /\ UNCHANGED chunkVars
    /\ UNCHANGED <<lambdaVars, pollVars, threadVars, save_state>>

(* RAGSystem.retrieve *)
Retrieve(query, k) ==
    /\ last' = [op |-> "retrieve",
                raised |-> SearchRaises(index, documents, encode(query, embedding_dim), k),
                query |-> query, k |-> k,
                results |-> SearchResults(index, documents,
                                          encode(query, embedding_dim), k)]
    /\ UNCHANGED <<embedding_dim, index, documents, disk_index, disk_docs>>
    /\ UNCHANGED chunkVars
    /\ UNCHANGED <<lambdaVars, pollVars, threadVars, save_state>>

(* the prompt of generate_response: for each retrieved document in order  *)
(* its "[Document idx]" line, idx from 1, and its content; and the query   *)
Prompt(query, docs, retrieved) ==
    [context |-> [i \in 1..Len(retrieved) |->
                     [number |-> i, content |-> docs[retrieved[i].pos].content]],
     question |-> query]

LLMOutcomes == {"answers", "fails"}

(* Variant of LLMGenerate: the provider's exception is not caught.         *)
LLMGeneratePropagates(prompt, outcome) ==
    IF outcome = "fails" THEN [kind |-> "raise", of |-> prompt]
    ELSE [kind |-> "answer", of |-> prompt]

(* BedrockLLM.generate: the provider's answer, or on any exception the     *)
(* text "Error generating response: ..."                                   *)
LLMGenerate(prompt, outcome) ==
    IF outcome = "fails" THEN [kind |-> "error_text", of |-> prompt]
    ELSE [kind |-> "answer", of |-> prompt]

(* Variant of RetrievedDocuments: the entries in reverse order.            *)
RetrievedDocumentsReversed(docs, retrieved) ==
    [i \in 1..Len(retrieved) |->
        [content |-> docs[retrieved[Len(retrieved) + 1 - i].pos].content,
         metadata |-> docs[retrieved[Len(retrieved) + 1 - i].pos].metadata,
         similarity_score |-> retrieved[Len(retrieved) + 1 - i].distance]]

RetrievedDocuments(docs, retrieved) ==
    [i \in 1..Len(retrieved) |->
        [content |-> docs[retrieved[i].pos].content,
         metadata |-> docs[retrieved[i].pos].metadata,
         similarity_score |-> retrieved[i].distance]]

(* RAGSystem.generate_response: retrieve, then the provider, then the      *)
(* result; an exception of either call goes to the caller                  *)
GenerateResponse(query, k, outcome) ==
    /\ LET q == encode(query, embedding_dim)
           retrieved == SearchResults(index, documents, q, k)
           response == LLMGenerate(Prompt(query, documents, retrieved), outcome)
       IN  last' =
             IF SearchRaises(index, documents, q, k)
             THEN [op |-> "generate", raised |-> TRUE, query |-> query, k |-> k,
                   llm_failed |-> FALSE, result |-> None]
             ELSE IF response.kind = "raise"
             THEN [op |-> "generate", raised |-> TRUE, query |-> query, k |-> k,
                   llm_failed |-> TRUE, result |-> None]
             ELSE [op |-> "generate", raised |-> FALSE, query |-> query, k |-> k,
                   llm_failed |-> outcome = "fails",
                   result |-> [query |-> query, response |-> response,
                               retrieved_documents |-> RetrievedDocuments(documents, retrieved)]]
    /\ UNCHANGED <<embedding_dim, index, documents, disk_index, disk_docs>>
    /\ UNCHANGED chunkVars
    /\ UNCHANGED <<lambdaVars, pollVars, threadVars, save_state>>

(* BedrockClient.generate_embedding: the provider's vector for the text *)
generate_embedding(txt) == encode(txt, MaxDim)

(* BedrockClient.generate_embeddings_batch: a list comprehension, one     *)
(* vector per text in input order; it raises when one of its calls raises, *)
(* which ProcessFile takes as failAt (0 for none)                          *)
generate_embeddings_batch(texts) ==
    [i \in 1..Len(texts) |-> generate_embedding(texts[i])]

(* EmbeddingProcessor._create_embedding_document *)
CreateEmbeddingDocument(source_key, chunkTexts, embeddings) ==
    [source_file |-> source_key,
     chunk_count |-> Len(chunkTexts),
     embeddings |-> [i \in 1..Len(chunkTexts) |->
                        [chunk_index |-> i - 1, text |-> chunkTexts[i],
                         embedding |-> embeddings[i]]]]

(* the object key of the file being processed *)
Keys == {"docs/a.txt"}

(* EmbeddingProcessor.process_file from line 39 on, for the chunks that    *)
(* chunk_text returned                                                     *)
ProcessFile(key, chunkTexts, failAt) ==
    /\ last' = IF failAt # 0
               THEN [op |-> "process_file", raised |-> TRUE, chunks |-> chunkTexts,
                     result |-> None]
               ELSE [op |-> "process_file", raised |-> FALSE, chunks |-> chunkTexts,
                     result |-> CreateEmbeddingDocument(key, chunkTexts,
                                    generate_embeddings_batch(chunkTexts))]
    /\ UNCHANGED <<embedding_dim, index, documents, disk_index, disk_docs>>
    /\ UNCHANGED chunkVars
    /\ UNCHANGED <<lambdaVars, pollVars, threadVars, save_state>>

RagNext ==
    \/ \E srcs \in SourceLists : IngestDocuments(srcs)
    \/ \E query \in Texts, k \in Ks : Retrieve(query, k)
    \/ \E query \in Texts, k \in Ks, outcome \in LLMOutcomes :
          GenerateResponse(query, k, outcome)
    \/ \E key \in Keys, chunkTexts \in SeqsUpTo(Texts, MaxChunks) :
          \E failAt \in 0..Len(chunkTexts) : ProcessFile(key, chunkTexts, failAt)

RagSpec == Init /\ [][RagNext]_vars

(***************************************************************************)
(* textract_extractor Lambda (text_extractor_handler.py and its            *)
(* dependencies).  The DynamoDB table is a function from job ids to items, *)
(* an item's absent attribute is None.                                     *)
(***************************************************************************)
JobIds == {"job-1", "job-2"}

NotificationStatuses == {"SUCCEEDED", "FAILED"}

CallbackUrls == {"https://sqs/cb"}

(* a string attribute or argument that is not there (None, missing key) *)
Absent == "(absent)"

(* dependencies/constants.py *)
JOB_STATUS_SUBMITTED == "SUBMITTED"
JOB_STATUS_COMPLETED == "COMPLETED"
JOB_STATUS_FAILED == "FAILED"
EXTRACTED_TEXT_PREFIX == "extracted/"

(* the message of record["body"]["Message"] *)
Notification(job_id, status) == [JobId |-> job_id, Status |-> status]

Notifications == {Notification(j, st) : j \in JobIds, st \in NotificationStatuses}

SqsEvents == SeqsUpTo(Notifications, MaxRecords)

(* the calls one record can make, and the call of an invocation that       *)
(* raises (0: none does)                                                   *)
CallsPerRecord == 5
FailPoints == 0..(CallsPerRecord + 1)

HasItem(table, job_id) == job_id \in DOMAIN table

(* table.put_item / table.update_item on the function *)
PutItem(table, job_id, item) ==
    [j \in DOMAIN table \cup {job_id} |-> IF j = job_id THEN item ELSE table[j]]

(* save_job: status SUBMITTED, callback_queue_url only when it is truthy *)
NewItem(callback_queue_url) ==
    [status |-> JOB_STATUS_SUBMITTED,
     output_s3_key |-> None,
     callback_queue_url |-> IF callback_queue_url \in CallbackUrls
                            THEN callback_queue_url ELSE Absent]

(* get_job: response.get("Item", {}) *)
EmptyItem == [status |-> Absent, output_s3_key |-> None, callback_queue_url |-> Absent]

GetJob(table, job_id) == IF HasItem(table, job_id) THEN table[job_id] ELSE EmptyItem

(* update_job_result: SET status, and output_s3_key when it is not None;   *)
(* update_item creates the item when there is none                         *)
UpdateJobResult(table, job_id, output_s3_key, status) ==
    PutItem(table, job_id,
            [GetJob(table, job_id) EXCEPT
                !.status = status,
                !.output_s3_key = IF output_s3_key # None THEN output_s3_key ELSE @])

(* get_extraction_result: the LINE text of the job *)
ExtractionResult(job_id) == <<"lines of", job_id>>

(* save_extracted_text: the key, and put_object under it *)
TextKey(job_id) == <<EXTRACTED_TEXT_PREFIX, job_id, ".txt">>

PutObject(objects, key, body) ==
    {o \in objects : o.key # key} \cup {[key |-> key, body |-> body]}

(* send_callback: the message put on the queue *)
CallbackMessage(queue_url, job_id, output_s3_key) ==
    [queue_url |-> queue_url, job_id |-> job_id,
     output_s3_key |-> output_s3_key, status |-> "COMPLETED"]

(* The state an invocation works on, and one call of it: the call is       *)
(* recorded; it raises when it is the call chosen to fail, and after a     *)
(* raise nothing more is called.                                           *)
Invocation(table, objects, queue) ==
    [table |-> table, objects |-> objects, queue |-> queue,
     calls |-> <<>>, raised |-> FALSE]

Do(st, call, after, failAt) ==
    IF st.raised THEN st
    ELSE IF Len(st.calls) + 1 = failAt
         THEN [st EXCEPT !.calls = Append(@, call), !.raised = TRUE]
         ELSE [after EXCEPT !.calls = Append(st.calls, call)]

(* if job.get("callback_queue_url") *)
WantsCallback(job) == job.callback_queue_url \notin {Absent, ""}

(* Variant of ProcessSucceeded: the callback is sent before the job record *)
(* is updated.                                                             *)
ProcessSucceededCallbackFirst(st, job_id, failAt) ==
    LET key == TextKey(job_id)
        s1 == Do(st, [fn |-> "get_extraction_result", job_id |-> job_id], st, failAt)
        s2 == Do(s1, [fn |-> "save_extracted_text", job_id |-> job_id],
                 [s1 EXCEPT !.objects = PutObject(@, key, ExtractionResult(job_id))],
                 failAt)
        s3 == Do(s2, [fn |-> "get_job", job_id |-> job_id], s2, failAt)
        job == GetJob(s3.table, job_id)
        s4 == IF WantsCallback(job)
              THEN Do(s3, [fn |-> "send_callback", job_id |-> job_id,
                           queue_url |-> job.callback_queue_url, output_s3_key |-> key],
                      [s3 EXCEPT !.queue =
                          Append(@, CallbackMessage(job.callback_queue_url, job_id, key))],
                      failAt)
              ELSE s3
    IN  Do(s4, [fn |-> "update_job_result", job_id |-> job_id,
                output_s3_key |-> key, status |-> JOB_STATUS_COMPLETED],
           [s4 EXCEPT !.table =
               UpdateJobResult(@, job_id, key, JOB_STATUS_COMPLETED)],
           failAt)

(* lines 53-58 *)
ProcessSucceeded(st, job_id, failAt) ==
    LET key == TextKey(job_id)
        s1 == Do(st, [fn |-> "get_extraction_result", job_id |-> job_id], st, failAt)
        s2 == Do(s1, [fn |-> "save_extracted_text", job_id |-> job_id],
                 [s1 EXCEPT !.objects = PutObject(@, key, ExtractionResult(job_id))],
                 failAt)
        s3 == Do(s2, [fn |-> "update_job_result", job_id |-> job_id,
                      output_s3_key |-> key, status |-> JOB_STATUS_COMPLETED],
                 [s2 EXCEPT !.table =
                     UpdateJobResult(@, job_id, key, JOB_STATUS_COMPLETED)],
                 failAt)
        s4 == Do(s3, [fn |-> "get_job", job_id |-> job_id], s3, failAt)
        job == GetJob(s4.table, job_id)
    IN  IF WantsCallback(job)
        THEN Do(s4, [fn |-> "send_callback", job_id |-> job_id,
                     queue_url |-> job.callback_queue_url, output_s3_key |-> key],
                [s4 EXCEPT !.queue =
                    Append(@, CallbackMessage(job.callback_queue_url, job_id, key))],
                failAt)
        ELSE s4

(* Variant of ProcessOther: the result is fetched before the record is     *)
(* marked FAILED.                                                          *)
ProcessOtherFetches(st, job_id, failAt) ==
    LET s1 == Do(st, [fn |-> "get_extraction_result", job_id |-> job_id], st, failAt)
    IN  Do(s1, [fn |-> "update_job_result", job_id |-> job_id,
                output_s3_key |-> None, status |-> JOB_STATUS_FAILED],
           [s1 EXCEPT !.table = UpdateJobResult(@, job_id, None, JOB_STATUS_FAILED)],
           failAt)

(* line 60 *)
ProcessOther(st, job_id, failAt) ==
    Do(st, [fn |-> "update_job_result", job_id |-> job_id,
            output_s3_key |-> None, status |-> JOB_STATUS_FAILED],
       [st EXCEPT !.table = UpdateJobResult(@, job_id, None, JOB_STATUS_FAILED)],
       failAt)

(* _process_textract_notification *)
ProcessTextractNotification(st, message, failAt) ==
    IF message.Status = "SUCCEEDED"
    THEN ProcessSucceeded(st, message.JobId, failAt)
    ELSE ProcessOther(st, message.JobId, failAt)

(* _handle_sqs_event: the records from the i-th on, in event order *)
RECURSIVE HandleRecords(_, _, _, _)
HandleRecords(st, event, i, failAt) ==
    IF i > Len(event) \/ st.raised THEN st
    ELSE HandleRecords(ProcessTextractNotification(st, event[i], failAt),
                       event, i + 1, failAt)

Succeeded(event) == {i \in 1..Len(event) : event[i].Status = "SUCCEEDED"}

(* the records whose handling sends a callback, and the number of calls    *)
(* the event's records make, when none raises                              *)
Callers(table, event) ==
    {i \in Succeeded(event) : WantsCallback(GetJob(table, event[i].JobId))}

CallCount(table, event) ==
    Len(event) + 3 * Cardinality(Succeeded(event)) + Cardinality(Callers(table, event))

(* handler, "Records" in event; the call that raises is one that is made *)
HandleSqsEvent(event, failAt) ==
    /\ last = NoCall
    /\ Len(callback_queue) + Cardinality(Callers(job_table, event)) <= MaxQueue
    /\ failAt <= CallCount(job_table, event)
    /\ LET st == HandleRecords(Invocation(job_table, s3_objects, callback_queue),
                               event, 1, failAt)
       IN  /\ job_table' = st.table
           /\ s3_objects' = st.objects
           /\ callback_queue' = st.queue
           /\ last' = [op |-> "sqs_event", raised |-> st.raised,
                       event |-> event, calls |-> st.calls]
    /\ UNCHANGED <<chunkVars, pollVars, threadVars, save_state>>
    /\ UNCHANGED <<embedding_dim, index, documents, disk_index, disk_docs>>

(* handler, direct invoke: _handle_start_extraction for a job id Textract  *)
(* has not given out before; startFails, saveFails: the call that raises   *)
HandleStartExtraction(job_id, callback_queue_url, startFails, saveFails) ==
    /\ last = NoCall
    /\ ~HasItem(job_table, job_id)
    /\ job_table' = IF startFails \/ saveFails THEN job_table
                    ELSE PutItem(job_table, job_id, NewItem(callback_queue_url))
    /\ last' = [op |-> "start_extraction", raised |-> startFails \/ saveFails,
                result |-> IF startFails \/ saveFails THEN None
                           ELSE [job_id |-> job_id, status |-> "SUBMITTED"]]
    /\ UNCHANGED <<s3_objects, callback_queue>>
    /\ UNCHANGED <<chunkVars, pollVars, threadVars, save_state>>
    /\ UNCHANGED <<embedding_dim, index, documents, disk_index, disk_docs>>

(* the invocation has ended and its outcome has gone to the Lambda         *)
(* runtime; the next invocation begins from there                          *)
InvocationEnds ==
    /\ last # NoCall
    /\ last' = NoCall
    /\ UNCHANGED <<embedding_dim, index, documents, disk_index, disk_docs>>
    /\ UNCHANGED <<chunkVars, lambdaVars, pollVars, threadVars, save_state>>

TextractInit ==
    /\ embedding_dim = 1
    /\ index = IndexFlatL2(embedding_dim)
    /\ documents = <<>>
    /\ disk_index = NoFile
    /\ disk_docs = NoFile
    /\ last = NoCall
    /\ ChunkerIdle
    /\ LambdaIdle
    /\ PollIdle
    /\ ThreadsIdle
    /\ SaveIdle

TextractNext ==
    \/ \E event \in SqsEvents, failAt \in FailPoints : HandleSqsEvent(event, failAt)
    \/ \E job_id \in JobIds, url \in CallbackUrls \cup {Absent, ""},
          startFails \in BOOLEAN, saveFails \in BOOLEAN :
          HandleStartExtraction(job_id, url, startFails, saveFails)
    \/ InvocationEnds

TextractSpec == TextractInit /\ [][TextractNext]_vars

(***************************************************************************)
(* The embeddings-generator Lambda: handler.lambda_handler.                *)
(***************************************************************************)
(* the events: "bucket" and "key" may each be missing from the event *)
Buckets == {"bkt"}

ObjectKeys == {"docs/a.txt", "a.md", "b.pdf", "c.doc"}

LambdaEvents == [bucket : Buckets \cup {Absent}, key : ObjectKeys \cup {Absent}]

(* os.path.splitext(key)[1].lower() of the keys above *)
FileExtension(key) ==
    CASE key = "docs/a.txt" -> ".txt"
      [] key = "a.md" -> ".md"
      [] key = "b.pdf" -> ".pdf"
      [] OTHER -> ".doc"

(* os.path.splitext(os.path.basename(source_key))[0] of the keys above *)
FileName(key) ==
    CASE key = "docs/a.txt" -> "a"
      [] key = "a.md" -> "a"
      [] key = "b.pdf" -> "b"
      [] OTHER -> "c"

PDF_EXTENSION == ".pdf"

SUPPORTED_TEXT_EXTENSIONS == {".txt", ".md", ".json", ".csv"}

(* f"{EMBEDDINGS_OUTPUT_FOLDER}/{file_name}_embeddings.json" *)
OutputKey(key) ==
    CASE FileName(key) = "a" -> "embeddings/a_embeddings.json"
      [] FileName(key) = "b" -> "embeddings/b_embeddings.json"
      [] OTHER -> "embeddings/c_embeddings.json"

(* the step of the try block at which an exception is raised by a client   *)
(* the handler calls: constructing the processor, reading or extracting    *)
(* the text, embedding the chunks, writing the embeddings                  *)
StepFailures == {"none", "init", "read", "embed", "write"}

(* the try block of lambda_handler, lines 23-41: the exception it raises,  *)
(* or the response it returns together with the object it has written     *)
TryBody(event, chunkTexts, failure) ==
    IF event.bucket = Absent \/ event.key = Absent
    THEN [exc |-> "KeyError", written |-> FALSE]
    ELSE IF failure = "init"
    THEN [exc |-> "Exception", written |-> FALSE]
    ELSE IF FileExtension(event.key) # PDF_EXTENSION
            /\ FileExtension(event.key) \notin SUPPORTED_TEXT_EXTENSIONS
    THEN [exc |-> "ValueError", written |-> FALSE]
    ELSE IF failure \in {"read", "embed", "write"}
    THEN [exc |-> "Exception", written |-> FALSE]
    ELSE LET doc == CreateEmbeddingDocument(event.key, chunkTexts,
                        generate_embeddings_batch(chunkTexts))
         IN [exc |-> "none", written |-> TRUE,
             output_key |-> OutputKey(event.key), doc |-> doc,
             response |-> [statusCode |-> 200,
                           source_file |-> event.key,
                           output_file |-> OutputKey(event.key),
                           chunk_count |-> doc.chunk_count]]

(* Variant of Caught: only the lookup error is caught.                     *)
CaughtKeyErrorOnly(exc) == exc = "KeyError"

(* except Exception, lines 43-50: every exception of the try block is an   *)
(* Exception and becomes the 500 response                                  *)
Caught(exc) == exc \in {"KeyError", "ValueError", "Exception"}

(* handler.lambda_handler *)
LambdaHandler(event, chunkTexts, failure) ==
    LET body == TryBody(event, chunkTexts, failure) IN
    /\ last = NoCall
    /\ s3_objects' = IF body.written
                     THEN PutObject(s3_objects, body.output_key, body.doc)
                     ELSE s3_objects
    /\ last' = IF body.exc = "none"
               THEN [op |-> "lambda_handler", raised |-> FALSE, event |-> event,
                     chunks |-> chunkTexts, failure |-> failure,
                     response |-> body.response]
               ELSE IF Caught(body.exc)
               THEN [op |-> "lambda_handler", raised |-> FALSE, event |-> event,
                     chunks |-> chunkTexts, failure |-> failure,
                     response |-> [statusCode |-> 500, error |-> body.exc]]
               ELSE [op |-> "lambda_handler", raised |-> TRUE, event |-> event,
                     chunks |-> chunkTexts, failure |-> failure,
                     response |-> None]
    /\ UNCHANGED <<job_table, callback_queue>>
    /\ UNCHANGED <<chunkVars, pollVars, threadVars, save_state>>
    /\ UNCHANGED <<embedding_dim, index, documents, disk_index, disk_docs>>

EmbLambdaNext ==
    \/ \E event \in LambdaEvents, chunkTexts \in SeqsUpTo(Texts, MaxChunks),
          failure \in StepFailures : LambdaHandler(event, chunkTexts, failure)
    \/ InvocationEnds

EmbLambdaSpec == TextractInit /\ [][EmbLambdaNext]_vars

(***************************************************************************)
(* Concurrent callers of one VectorStore (vector_store.py has no lock).    *)
(* add_documents is index.add followed by documents.extend; another        *)
(* caller may run between the two.  When the callers are serialized, a     *)
(* caller enters add_documents, search or save only while no other caller  *)
(* is inside one of them.                                                  *)
(***************************************************************************)
Threads == {1, 2}

(* vector i is the embedding of documents[i], and as many of each *)
VectorsOf(ix, docs) ==
    /\ ntotal(ix) = Len(docs)
    /\ \A i \in 1..Len(docs) : ix.xb[i] = docs[i].embedding

AllIdle == \A t \in Threads : threads[t].pc = "idle"

(* the caller may enter an operation of the store *)
MayEnter(t) ==
    /\ threads[t].pc = "idle"
    /\ serialized => mutex = 0

(* add_documents, lines 17-18: the array conversion and index.add; when    *)
(* they raise nothing is stored and the call is over                       *)
AddIndex(t, batch) ==
    /\ MayEnter(t)
    /\ ntotal(index) + Len(batch) <= MaxDocs
    /\ index' = IF AddRaises(index, batch) THEN index ELSE IndexAdd(index, batch)
    /\ threads' = IF AddRaises(index, batch) THEN threads
                  ELSE [threads EXCEPT ![t] = [pc |-> "extend", batch |-> batch]]
    /\ mutex' = IF serialized /\ ~AddRaises(index, batch) THEN t ELSE mutex
    /\ last' = [op |-> "add_index", raised |-> AddRaises(index, batch),
                thread |-> t, aligned |-> VectorsOf(index, documents)]
    /\ UNCHANGED <<embedding_dim, documents, disk_index, disk_docs, serialized>>
    /\ UNCHANGED <<chunkVars, lambdaVars, pollVars, save_state>>

(* add_documents, line 19: documents.extend, and the call returns *)
AddExtend(t) ==
    /\ threads[t].pc = "extend"
    /\ documents' = Extend(documents, threads[t].batch)
    /\ threads' = [threads EXCEPT ![t] = [pc |-> "idle", batch |-> <<>>]]
    /\ mutex' = 0
    /\ last' = [op |-> "add", raised |-> FALSE, thread |-> t,
                aligned |-> VectorsOf(index, documents')]
    /\ UNCHANGED <<embedding_dim, index, disk_index, disk_docs, serialized>>
    /\ UNCHANGED <<chunkVars, lambdaVars, pollVars, save_state>>

(* search by one caller while the others are where they are *)
ThreadSearch(t, q, k) ==
    /\ MayEnter(t)
    /\ last' = [op |-> "search", raised |-> SearchRaises(index, documents, q, k),
                thread |-> t, q |-> q, k |-> k,
                results |-> SearchResults(index, documents, q, k),
                aligned |-> VectorsOf(index, documents)]
    /\ UNCHANGED <<embedding_dim, index, documents, disk_index, disk_docs>>
    /\ UNCHANGED <<chunkVars, lambdaVars, pollVars, threadVars, save_state>>

(* save by one caller while the others are where they are *)
ThreadSave(t) ==
    /\ MayEnter(t)
    /\ disk_index' = IndexFile(index)
    /\ disk_docs' = DocsFile(documents)
    /\ last' = [op |-> "save", raised |-> FALSE, thread |-> t,
                aligned |-> VectorsOf(index, documents)]
    /\ UNCHANGED <<embedding_dim, index, documents>>
    /\ UNCHANGED <<chunkVars, lambdaVars, pollVars, threadVars, save_state>>

ThreadsInit ==
    /\ embedding_dim \in Dims
    /\ index = IndexFlatL2(embedding_dim)
    /\ documents = <<>>
    /\ disk_index = NoFile
    /\ disk_docs = NoFile
    /\ last = NoCall
    /\ ChunkerIdle
    /\ LambdaIdle
    /\ PollIdle
    /\ SaveIdle
    /\ threads = [t \in Threads |-> [pc |-> "idle", batch |-> <<>>]]
    /\ serialized \in BOOLEAN
    /\ mutex = 0

ThreadsNext ==
    \/ \E t \in Threads, batch \in Batches : AddIndex(t, batch)
    \/ \E t \in Threads : AddExtend(t)
    \/ \E t \in Threads, q \in Vectors(embedding_dim), k \in Ks : ThreadSearch(t, q, k)
    \/ \E t \in Threads : ThreadSave(t)

ThreadsSpec == ThreadsInit /\ [][ThreadsNext]_vars

(***************************************************************************)
(* VectorStore.save step by step: faiss.write_index (line 35), then the    *)
(* documents file (lines 36-43).  The process may end, or opening the      *)
(* documents file may raise, after the first write.  save_state.torn       *)
(* records that the artifacts on disk are those of such a save.            *)
(***************************************************************************)
(* Variant of SaveFirstWrite: the documents file before the index file.   *)
SaveFirstWriteDocs(ix, docs, di, dd) ==
    [disk_index |-> di, disk_docs |-> DocsFile(docs)]

(* line 35: the index file is replaced, the documents file is as it was *)
SaveFirstWrite(ix, docs, di, dd) ==
    [disk_index |-> IndexFile(ix), disk_docs |-> dd]

SaveWriteIndex ==
    /\ save_state.pc = "idle"
    /\ disk_index' = SaveFirstWrite(index, documents, disk_index, disk_docs).disk_index
    /\ disk_docs' = SaveFirstWrite(index, documents, disk_index, disk_docs).disk_docs
    /\ save_state' = [pc |-> "index_written", torn |-> TRUE]
    /\ last' = [op |-> "write_index", raised |-> FALSE]
    /\ UNCHANGED <<embedding_dim, index, documents>>
    /\ UNCHANGED <<chunkVars, lambdaVars, pollVars, threadVars>>

(* lines 36-43: the documents file is written and save returns *)
SaveWriteDocs ==
    /\ save_state.pc = "index_written"
    /\ disk_index' = IndexFile(index)
    /\ disk_docs' = DocsFile(documents)
    /\ save_state' = [pc |-> "idle", torn |-> FALSE]
    /\ last' = [op |-> "save", raised |-> FALSE]
    /\ UNCHANGED <<embedding_dim, index, documents>>
    /\ UNCHANGED <<chunkVars, lambdaVars, pollVars, threadVars>>

(* line 36: open(docs_path, 'w') raises; save raises, the store stays *)
SaveOpenDocsRaises ==
    /\ save_state.pc = "index_written"
    /\ save_state' = [pc |-> "idle", torn |-> TRUE]
    /\ last' = [op |-> "save", raised |-> TRUE]
    /\ UNCHANGED <<embedding_dim, index, documents, disk_index, disk_docs>>
    /\ UNCHANGED <<chunkVars, lambdaVars, pollVars, threadVars>>

(* the process ends between the two writes; the next process starts with   *)
(* a new store and the files as they are                                   *)
SaveCrash ==
    /\ save_state.pc = "index_written"
    /\ save_state' = [pc |-> "idle", torn |-> TRUE]
    /\ index' = IndexFlatL2(embedding_dim)
    /\ documents' = <<>>
    /\ last' = [op |-> "crash", raised |-> FALSE]
    /\ UNCHANGED <<embedding_dim, disk_index, disk_docs>>
    /\ UNCHANGED <<chunkVars, lambdaVars, pollVars, threadVars>>

(* the other operations run only while no save is under way: one caller *)
ConstructOutsideSave == save_state.pc = "idle" /\ Construct

AddOutsideSave(batch) == save_state.pc = "idle" /\ AddDocuments(batch)

LoadOutsideSave == save_state.pc = "idle" /\ Load

SaveNext ==
    \/ ConstructOutsideSave
    \/ \E batch \in Batches : AddOutsideSave(batch)
    \/ LoadOutsideSave
    \/ SaveWriteIndex
    \/ SaveWriteDocs
    \/ SaveOpenDocsRaises
    \/ SaveCrash

SaveSpec == Init /\ [][SaveNext]_vars

(***************************************************************************)
(* The read-only operations of the store and of RAGSystem next to       *)
(* add_documents, which fills the store: search, retrieve,                 *)
(* generate_response and save are called on every store it builds, with    *)
(* queries of every dimension and every failure of the model call and of   *)
(* the two writes.                                                         *)
(***************************************************************************)
FrameNext ==
    \/ \E batch \in Batches : AddDocuments(batch)
    \/ \E d \in Dims : \E q \in Vectors(d), k \in Ks : Search(q, k)
    \/ \E query \in Texts, k \in Ks : Retrieve(query, k)
    \/ \E query \in Texts, k \in Ks, outcome \in LLMOutcomes :
          GenerateResponse(query, k, outcome)
    \/ \E fail \in SaveFailures : Save(fail)

FrameSpec == Init /\ [][FrameNext]_vars

(***************************************************************************)
(* TextractClient.extract_text_from_pdf of the embeddings generator: the   *)
(* job is started and get_document_text_detection is called in a loop      *)
(* until the status read is SUCCEEDED or FAILED.  The job is the           *)
(* service's: it is IN_PROGRESS until it ends in one of the service's      *)
(* final statuses.                                                         *)
(***************************************************************************)
MaxBlocks == 2

BlockTypes == {"LINE", "WORD"}

BlockTexts == {"a", "b"}

Blocks == SeqsUpTo([BlockType : BlockTypes, Text : BlockTexts], MaxBlocks)

(* JobStatus of GetDocumentTextDetection once the job is no longer         *)
(* IN_PROGRESS                                                             *)
FinalStatuses == {"SUCCEEDED", "FAILED", "PARTIAL_SUCCESS"}

(* block["Text"] for block in blocks if block["BlockType"] == "LINE" *)
TextLines(blocks) ==
    SelectSeq(blocks, LAMBDA b : b.BlockType = "LINE")

RECURSIVE JoinLines(_)
(* "\n".join(text_lines) *)
JoinLines(lines) ==
    IF Len(lines) = 0 THEN ""
    ELSE IF Len(lines) = 1 THEN lines[1].Text
    ELSE lines[1].Text \o "\n" \o JoinLines(Tail(lines))

(* _parse_blocks *)
ParseBlocks(blocks) == JoinLines(TextLines(blocks))

(* lines 34-39: what one pass of the loop does with the status it read *)
PollOutcome(status, blocks) ==
    IF status = "SUCCEEDED" THEN [pc |-> "returned", result |-> ParseBlocks(blocks)]
    ELSE IF status = "FAILED" THEN [pc |-> "raised", result |-> ""]
    ELSE [pc |-> "polling", result |-> ""]

(* lines 19-24: start_document_text_detection; a ClientError becomes the   *)
(* Exception of line 26                                                    *)
StartDetection(blocks, startFails) ==
    /\ poll.pc = "idle"
    /\ textract_job' = IF startFails THEN textract_job
                       ELSE [status |-> "IN_PROGRESS", blocks |-> blocks]
    /\ poll' = IF startFails
               THEN [pc |-> "raised", result |-> "", read |-> "NONE"]
               ELSE [pc |-> "polling", result |-> "", read |-> "NONE"]
    /\ UNCHANGED <<embedding_dim, index, documents, disk_index, disk_docs, last>>
    /\ UNCHANGED <<chunkVars, lambdaVars, threadVars, save_state>>

(* the service ends the job *)
JobFinishes(status) ==
    /\ textract_job.status = "IN_PROGRESS"
    /\ textract_job' = [textract_job EXCEPT !.status = status]
    /\ UNCHANGED poll
    /\ UNCHANGED <<embedding_dim, index, documents, disk_index, disk_docs, last>>
    /\ UNCHANGED <<chunkVars, lambdaVars, threadVars, save_state>>

(* lines 31-34: get_document_text_detection returns and the status is read *)
PollCall ==
    /\ poll.pc = "polling"
    /\ poll' = [pc |-> "read", result |-> "", read |-> textract_job.status]
    /\ UNCHANGED textract_job
    /\ UNCHANGED <<embedding_dim, index, documents, disk_index, disk_docs, last>>
    /\ UNCHANGED <<chunkVars, lambdaVars, threadVars, save_state>>

(* lines 36-39: return, raise, or go round the loop again *)
PollBranch ==
    /\ poll.pc = "read"
    /\ LET out == PollOutcome(poll.read, textract_job.blocks)
       IN  poll' = [pc |-> out.pc, result |-> out.result, read |-> poll.read]
    /\ UNCHANGED textract_job
    /\ UNCHANGED <<embedding_dim, index, documents, disk_index, disk_docs, last>>
    /\ UNCHANGED <<chunkVars, lambdaVars, threadVars, save_state>>

(* get_document_text_detection raises ClientError: it leaves the loop and  *)
(* becomes the Exception of line 26                                        *)
PollClientError ==
    /\ poll.pc = "polling"
    /\ poll' = [pc |-> "raised", result |-> "", read |-> "ClientError"]
    /\ UNCHANGED textract_job
    /\ UNCHANGED <<embedding_dim, index, documents, disk_index, disk_docs, last>>
    /\ UNCHANGED <<chunkVars, lambdaVars, threadVars, save_state>>

PollNext ==
    \/ \E blocks \in Blocks, startFails \in BOOLEAN : StartDetection(blocks, startFails)
    \/ \E status \in FinalStatuses : JobFinishes(status)
    \/ PollCall
    \/ PollBranch
    \/ PollClientError

PollSpec == TextractInit /\ [][PollNext]_vars

(* the loop makes its next step when it has one, and the job leaves        *)
(* IN_PROGRESS                                                             *)
PollSpecFair ==
    /\ PollSpec
    /\ WF_vars(PollCall)
    /\ WF_vars(PollBranch)
    /\ WF_vars(\E status \in FinalStatuses : JobFinishes(status))

(***************************************************************************)
(* Properties.                                                             *)
(***************************************************************************)
Searched == last.op = "search" /\ ~last.raised

Added == last.op = "add" /\ ~last.raised

Aligned ==
    /\ ntotal(index) = Len(documents)
    /\ \A i \in 1..Len(documents) :
          index.xb[i] = encode(documents[i].content, Len(index.xb[i]))

Positions(results) == {results[i].pos : i \in 1..Len(results)}

(* C1: a search that returns gives at most min(k, n) results for n stored  *)
(* documents, and no document twice.                                        *)
C1_SearchAtMostMinKN ==
    Searched =>
        /\ Len(last.results) <= Min(last.k, Len(documents))
        /\ Cardinality(Positions(last.results)) = Len(last.results)

(* C2: the stored vectors and the stored documents have one length, and    *)
(* the vector at position i is the embedding of documents[i].              *)
C2_VectorsMatchDocuments == Aligned

(* C3: an add whose batch holds a missing embedding or one whose length is *)
(* not the configured dimension raises and leaves vectors and documents as *)
(* they were.                                                              *)
C3_AddAllOrNothing ==
    [][(last'.op = "add" /\ ~last'.valid) =>
          (last'.raised /\ index' = index /\ documents' = documents)]_vars

(* C4: the results of a search are the min(k, n) stored entries nearest to *)
(* the query, in non-decreasing distance, each with the distance of the    *)
(* vector stored at the position of its document.                          *)
C4_SearchKSmallest ==
    Searched =>
        LET res == last.results
        IN  /\ Len(res) = Min(last.k, ntotal(index))
            /\ Cardinality(Positions(res)) = Len(res)
            /\ \A i \in 1..Len(res) :
                  /\ res[i].pos \in 1..ntotal(index)
                  /\ res[i].distance = L2sqr(last.q, index.xb[res[i].pos])
            /\ \A i, j \in 1..Len(res) :
                  i < j => res[i].distance <= res[j].distance
            /\ \A i \in 1..Len(res) :
                  \A p \in (1..ntotal(index)) \ Positions(res) :
                      res[i].distance <= L2sqr(last.q, index.xb[p])

(* What a caller sees of a search: whether it raised, and the content,     *)
(* metadata and distance of each result.                                   *)
SearchOutcome(ix, docs, q, k) ==
    LET res == SearchResults(ix, docs, q, k)
    IN  [raised |-> SearchRaises(ix, docs, q, k),
         results |-> [i \in 1..Len(res) |->
                         [content |-> docs[res[i].pos].content,
                          metadata |-> docs[res[i].pos].metadata,
                          distance |-> res[i].distance]]]

SameSearches(ix1, docs1, ix2, docs2) ==
    \A q \in Vectors(embedding_dim) \cup Vectors(ix1.d), k \in Ks :
        SearchOutcome(ix1, docs1, q, k) = SearchOutcome(ix2, docs2, q, k)

Saved == last.op = "save" /\ ~last.raised

C6_LoadRejectsDimensionMismatch ==
    /\ index.d = embedding_dim
    /\ (last.op = "load" /\ disk_index.kind = "ok"
            /\ disk_index.d # embedding_dim) => last.raised

(* C7: a load that raises leaves the vectors and the documents of the      *)
(* store as they were.                                                     *)
C7_FailedLoadKeepsState ==
    [][(last'.op = "load" /\ last'.raised) =>
          (index' = index /\ documents' = documents)]_vars

(* C8: every stored document carries an embedding of the configured        *)
(* dimension.                                                              *)
C8_DocumentsCarryEmbedding ==
    \A i \in 1..Len(documents) : Len(documents[i].embedding) = embedding_dim

EarliestEqual(ix, v) ==
    CHOOSE e \in 1..ntotal(ix) :
        ix.xb[e] = v /\ \A j \in 1..(e - 1) : ix.xb[j] # v

StoredEntries(results) == {i \in 1..Len(results) : results[i].distance # FLT_MAX}

IsPrefix(s, t) == Len(s) <= Len(t) /\ \A i \in 1..Len(s) : t[i] = s[i]

(* C11: add, search and save keep every stored document and vector at its  *)
(* position, and an add that returns leaves the documents followed by the  *)
(* batch in input order, the vectors followed by the batch's embeddings.   *)
C11_AppendOnly ==
    [][/\ last'.op \in {"add", "search", "save"} =>
              /\ IsPrefix(documents, documents')
              /\ IsPrefix(index.xb, index'.xb)
              /\ index'.d = index.d
       /\ last'.op \in {"search", "save"} =>
              (documents' = documents /\ index' = index)
       /\ (last'.op = "add" /\ ~last'.raised) =>
              \A batch \in Batches :
                  (Len(batch) = last'.n /\ AddDocuments(batch)) =>
                      /\ Len(documents') = Len(documents) + Len(batch)
                      /\ Len(index'.xb) = Len(index.xb) + Len(batch)
                      /\ \A i \in 1..Len(batch) :
                            /\ documents'[Len(documents) + i] = batch[i]
                            /\ index'.xb[Len(index.xb) + i] = batch[i].embedding]_vars

C11_Witness ==
    /\ Added
    /\ last.n = 1
    /\ Len(documents) = 2
    /\ documents[1].content # documents[2].content

(***************************************************************************)
(* TextChunker properties.                                                 *)
(***************************************************************************)
ValidChunker == chunk_size > overlap /\ overlap >= 0

Step == chunk_size - overlap

Ceil(a, b) == (a + b - 1) \div b

NonEmpty(s) == s # <<>>

(* w without its leading and trailing blanks, by the positions of its      *)
(* first and last non-blank character                                      *)
Trimmed(w) ==
    LET ns == {i \in 1..Len(w) : ~IsSpace(w[i])}
    IN  IF ns = {} THEN <<>>
        ELSE SubSeq(w, CHOOSE i \in ns : \A j \in ns : i <= j,
                       CHOOSE i \in ns : \A j \in ns : i >= j)

(* the multiples of the step below len(text), in order *)
ExpectedStarts ==
    [i \in 1..Cardinality({k \in 0..Len(text) : k * Step < Len(text)}) |->
        (i - 1) * Step]

ExpectedChunks ==
    SelectSeq([i \in 1..Len(ExpectedStarts) |->
                  Trimmed(SubSeq(text, ExpectedStarts[i] + 1,
                                 Min(ExpectedStarts[i] + chunk_size, Len(text))))],
              NonEmpty)

(* C12: a text no longer than chunk_size is returned as the single chunk   *)
(* [text], untrimmed, also when it is empty or blank, whatever the overlap *)
C12_ShortTextReturnedWhole ==
    (cpc # "call" /\ Len(text) <= chunk_size) =>
        /\ cpc = "done"
        /\ chunks = <<text>>
        /\ windows = <<>>

C12_Witness ==
    /\ cpc = "done"
    /\ text = <<" ", "a", " ">>
    /\ overlap >= chunk_size

(* C13: for len(text) > chunk_size and chunk_size > overlap >= 0 the       *)
(* windows start at 0, step, 2*step, ... below len(text), and the chunks   *)
(* are the trimmed windows text[s:s+chunk_size] in order without the ones  *)
(* empty after trimming; 1024/50 on 2000 characters gives the windows at   *)
(* 0, 974 and 1948, the last one cut at the end of the text.               *)
C13_TrimmedWindowsInOrder ==
    (cpc = "done" /\ Len(text) > chunk_size /\ ValidChunker) =>
        /\ windows = ExpectedStarts
        /\ chunks = ExpectedChunks
        /\ (Len(text) = 2000 /\ chunk_size = CHUNK_SIZE /\ overlap = CHUNK_OVERLAP) =>
               /\ windows = <<0, 974, 1948>>
               /\ Len(chunks) = 3
               /\ Len(chunks[1]) = CHUNK_SIZE
               /\ Len(chunks[3]) = 2000 - 1948

C13_Witness ==
    /\ cpc = "done"
    /\ ValidChunker
    /\ Len(text) > chunk_size
    /\ Len(chunks) >= 2
    /\ Len(chunks) < Len(windows)
    /\ \E i \in 1..Len(chunks) : Len(chunks[i]) < chunk_size

(* C14: with overlap >= chunk_size no window is ever processed *)
C14_BadOverlapRejected ==
    overlap >= chunk_size => windows = <<>>

(* C15: for chunk_size > overlap >= 0 the call returns; every iteration    *)
(* increases start, the loop is left at the first start >= len(text), and  *)
(* a text longer than chunk_size takes ceil(len(text) / step) windows.     *)
C15_Terminates ==
    /\ [][(ValidChunker /\ windows' # windows) => start' > start]_vars
    /\ []((ValidChunker /\ cpc = "done" /\ Len(text) > chunk_size) =>
              /\ Len(windows) = Ceil(Len(text), Step)
              /\ start >= Len(text)
              /\ windows[Len(windows)] < Len(text))
    /\ (ValidChunker ~> cpc = "done")

C15_Witness ==
    /\ cpc = "done"
    /\ ValidChunker
    /\ overlap > 0
    /\ Len(windows) = MaxLen

ChunkIsSubstring(i) ==
    /\ 0 <= spans[i].from
    /\ spans[i].from <= spans[i].to
    /\ spans[i].to <= Len(text)
    /\ chunks[i] = SubSeq(text, spans[i].from + 1, spans[i].to)

(* C16: for chunk_size > overlap > 0 every returned chunk is a contiguous  *)
(* substring of the text and chunk i+1 begins at or before the position    *)
(* where chunk i ends.                                                     *)
C16_NoGapBetweenChunks ==
    (cpc = "done" /\ ValidChunker /\ overlap > 0) =>
        /\ Len(spans) = Len(chunks)
        /\ \A i \in 1..Len(chunks) : ChunkIsSubstring(i)
        /\ \A i \in 1..(Len(chunks) - 1) : spans[i + 1].from <= spans[i].to

(* C16 as it holds: every returned chunk is a contiguous substring of the  *)
(* text, consecutive windows overlap, and the characters between the end   *)
(* of chunk i and the beginning of chunk i+1 are all whitespace.           *)
C16_GapsAreWhitespace ==
    (cpc = "done" /\ ValidChunker /\ overlap > 0) =>
        /\ Len(spans) = Len(chunks)
        /\ \A i \in 1..Len(chunks) : ChunkIsSubstring(i)
        /\ \A j \in 1..(Len(windows) - 1) : windows[j + 1] < windows[j] + chunk_size
        /\ \A i \in 1..(Len(chunks) - 1) :
               \A q \in (spans[i].to + 1)..spans[i + 1].from : IsSpace(text[q])

C16_Witness ==
    /\ cpc = "done"
    /\ ValidChunker
    /\ overlap > 0
    /\ Len(chunks) < Len(windows)
    /\ \E i \in 1..(Len(chunks) - 1) : spans[i + 1].from > spans[i].to

(***************************************************************************)
(* RAGSystem properties.                                                   *)
(***************************************************************************)
RECURSIVE SumSeq(_)
SumSeq(ns) == IF ns = <<>> THEN 0 ELSE Head(ns) + SumSeq(Tail(ns))

(* the number of chunks of the sources before source j *)
Offset(counts, j) == SumSeq(SubSeq(counts, 1, j - 1))

Ingested == last.op = "ingest" /\ ~last.raised

(* C17: an ingest call in which the loading or the embedding of a source   *)
(* fails raises, and an ingest call that raises leaves the vectors and the *)
(* documents of the index as they were before the call.                    *)
C17_IngestCommitsNothingOnFailure ==
    [][last'.op = "ingest" =>
          /\ last'.failed => last'.raised
          /\ last'.raised => (index' = index /\ documents' = documents)]_vars

C17_Witness ==
    /\ last.op = "ingest"
    /\ last.failed
    /\ last.raised
    /\ last.paths = <<"a.txt", "c.doc">>
    /\ last.counts[1] = MaxChunks
    /\ Len(documents) = 1

(* C18: after an ingest every added document carries the embedding of its  *)
(* own content, stored at its position in the index, and as many documents *)
(* are added as chunks were loaded; an embedding document has chunk_count  *)
(* records, record i holding chunk i and the embedding of chunk i.         *)
C18_EmbeddingsInInputOrder ==
    /\ [][(last'.op = "ingest" /\ ~last'.raised) =>
              /\ Len(documents') = Len(documents) + SumSeq(last'.counts)
              /\ Len(index'.xb) = Len(index.xb) + SumSeq(last'.counts)
              /\ \A i \in 1..SumSeq(last'.counts) :
                    /\ documents'[Len(documents) + i].embedding =
                           encode(documents'[Len(documents) + i].content, embedding_dim)
                    /\ index'.xb[Len(index.xb) + i] =
                           encode(documents'[Len(documents) + i].content, embedding_dim)]_vars
    /\ []((last.op = "process_file" /\ ~last.raised) =>
              /\ last.result.chunk_count = Len(last.chunks)
              /\ Len(last.result.embeddings) = last.result.chunk_count
              /\ \A i \in 1..Len(last.chunks) :
                    last.result.embeddings[i] =
                        [chunk_index |-> i - 1, text |-> last.chunks[i],
                         embedding |-> generate_embedding(last.chunks[i])])

C18_Witness ==
    /\ Ingested
    /\ last.counts = <<MaxChunks>>
    /\ Len(documents) = MaxChunks
    /\ documents[1].content # documents[2].content

(* C19: the documents an ingest adds carry source and chunk_index: the     *)
(* chunks of source j follow those of the sources before it, in chunk      *)
(* order, with the source's path and chunk_index 0, 1, ..., m-1.           *)
C19_SourceAndChunkIndex ==
    [][(last'.op = "ingest" /\ ~last'.raised) =>
          /\ Len(documents') = Len(documents) + SumSeq(last'.counts)
          /\ \A j \in 1..Len(last'.paths) :
                \A c \in 1..last'.counts[j] :
                    LET doc == documents'[Len(documents) + Offset(last'.counts, j) + c]
                    IN  /\ {"source", "chunk_index"} \subseteq DOMAIN doc.metadata
                        /\ doc.metadata.source = StrPath(last'.paths[j])
                        /\ doc.metadata.chunk_index = c - 1]_vars

C19_Witness ==
    /\ Ingested
    /\ last.counts = <<2, 1>>
    /\ last.paths = <<"./b.pdf", "a.txt">>
    /\ Len(documents) = 3

(* C20: when the provider fails during generate, generate returns: the     *)
(* response is the error text, retrieved_documents is the whole retrieval  *)
(* result for the query, and the index is as it was.                       *)
C20_ProviderFailureReturned ==
    /\ []((last.op = "generate" /\ last.llm_failed) =>
              /\ ~last.raised
              /\ last.result.response.kind = "error_text"
              /\ last.result.retrieved_documents =
                     RetrievedDocuments(documents,
                         SearchResults(index, documents,
                                       encode(last.query, embedding_dim), last.k)))
    /\ [][(last'.op = "generate" /\ last'.llm_failed) =>
              (index' = index /\ documents' = documents)]_vars

C20_Witness ==
    /\ last.op = "generate"
    /\ last.llm_failed
    /\ ~last.raised
    /\ Len(last.result.retrieved_documents) = 2

Generated == last.op = "generate" /\ ~last.raised

(* what retrieve(query, k) returns in the current state for the query of   *)
(* the last call                                                           *)
RetrievedNow ==
    SearchResults(index, documents, encode(last.query, embedding_dim), last.k)

(* C21: generate returns the query, a response text and retrieved_documents *)
(* of the length and order of retrieve(query, k), by ascending distance;    *)
(* entry i carries content, metadata and distance of the i-th retrieved     *)
(* document, which is Document i of the context; 3 chunks and k=2 give 2.   *)
C21_GenerateResultShape ==
    Generated =>
        /\ last.result.query = last.query
        /\ last.result.response.kind \in {"answer", "error_text"}
        /\ Len(last.result.retrieved_documents) = Len(RetrievedNow)
        /\ Len(last.result.response.of.context) = Len(RetrievedNow)
        /\ \A i \in 1..Len(RetrievedNow) :
              /\ DOMAIN last.result.retrieved_documents[i] =
                     {"content", "metadata", "similarity_score"}
              /\ last.result.retrieved_documents[i].content =
                     documents[RetrievedNow[i].pos].content
              /\ last.result.retrieved_documents[i].metadata =
                     documents[RetrievedNow[i].pos].metadata
              /\ last.result.retrieved_documents[i].similarity_score =
                     RetrievedNow[i].distance
              /\ last.result.response.of.context[i] =
                     [number |-> i,
                      content |-> last.result.retrieved_documents[i].content]
        /\ \A i \in 1..(Len(RetrievedNow) - 1) :
              last.result.retrieved_documents[i].similarity_score <=
                  last.result.retrieved_documents[i + 1].similarity_score
        /\ (Len(documents) = 3 /\ last.k = 2) =>
               Len(last.result.retrieved_documents) = 2

C21_Witness ==
    /\ Generated
    /\ Len(documents) = 3
    /\ last.k = 2
    /\ Len(last.result.retrieved_documents) = 2
    /\ last.result.retrieved_documents[1].similarity_score <
           last.result.retrieved_documents[2].similarity_score

(***************************************************************************)
(* textract_extractor properties.                                          *)
(***************************************************************************)
SqsHandled == last.op = "sqs_event"

(* the calls the handling of one notification consists of, for the job     *)
(* table as it was when the invocation began                               *)
CallsFor(table, message) ==
    IF message.Status = "SUCCEEDED"
    THEN <<[fn |-> "get_extraction_result", job_id |-> message.JobId],
           [fn |-> "save_extracted_text", job_id |-> message.JobId],
           [fn |-> "update_job_result", job_id |-> message.JobId,
            output_s3_key |-> TextKey(message.JobId), status |-> "COMPLETED"],
           [fn |-> "get_job", job_id |-> message.JobId]>> \o
         (IF HasItem(table, message.JobId) /\
             table[message.JobId].callback_queue_url \in CallbackUrls
          THEN <<[fn |-> "send_callback", job_id |-> message.JobId,
                  queue_url |-> table[message.JobId].callback_queue_url,
                  output_s3_key |-> TextKey(message.JobId)]>>
          ELSE <<>>)
    ELSE <<[fn |-> "update_job_result", job_id |-> message.JobId,
            output_s3_key |-> None, status |-> "FAILED"]>>

RECURSIVE CallsOfEvent(_, _)
CallsOfEvent(table, event) ==
    IF event = <<>> THEN <<>>
    ELSE CallsFor(table, Head(event)) \o CallsOfEvent(table, Tail(event))

(* the calls made for record i: those at its place in the sequence *)
SegmentOf(table, event, calls, i) ==
    LET from == Len(CallsOfEvent(table, SubSeq(event, 1, i - 1)))
        upto == Len(CallsOfEvent(table, SubSeq(event, 1, i)))
    IN  SubSeq(calls, from + 1, Min(upto, Len(calls)))

(* the callbacks among the calls that returned *)
RECURSIVE CallbacksSent(_, _)
CallbacksSent(calls, raised) ==
    IF calls = <<>> THEN <<>>
    ELSE LET c == calls[Len(calls)]
             before == CallbacksSent(SubSeq(calls, 1, Len(calls) - 1), FALSE)
         IN  IF c.fn = "send_callback" /\ ~raised
             THEN Append(before, CallbackMessage(c.queue_url, c.job_id, c.output_s3_key))
             ELSE before

(* C22: for a SUCCEEDED notification the handler fetches the result, saves *)
(* the text, updates the job record to COMPLETED with the saved key, and   *)
(* then sends the callback with that job id and key: once when the job     *)
(* record has a callback_queue_url, not at all otherwise, and never before *)
(* the update to COMPLETED.  A call that raises ends the sequence there.   *)
C22_SucceededFetchSaveUpdateCallback ==
    [][last'.op = "sqs_event" =>
          /\ \A i \in 1..Len(last'.event) :
                last'.event[i].Status = "SUCCEEDED" =>
                    LET seg == SegmentOf(job_table, last'.event, last'.calls, i)
                        job_id == last'.event[i].JobId
                        url == GetJob(job_table, job_id).callback_queue_url
                    IN  /\ IsPrefix(seg, CallsFor(job_table, last'.event[i]))
                        /\ \A q \in 1..Len(seg) :
                              seg[q].fn = "send_callback" =>
                                  /\ q = 5
                                  /\ seg[3].fn = "update_job_result"
                                  /\ seg[3].status = JOB_STATUS_COMPLETED
                                  /\ seg[3].output_s3_key = seg[q].output_s3_key
                                  /\ seg[q].job_id = job_id
                                  /\ seg[q].queue_url = url
                        /\ ~last'.raised =>
                              /\ Len(seg) = IF url \in CallbackUrls THEN 5 ELSE 4
                              /\ Cardinality({q \in 1..Len(seg) :
                                                 seg[q].fn = "send_callback"}) =
                                     IF url \in CallbackUrls THEN 1 ELSE 0
                              /\ [key |-> TextKey(job_id),
                                  body |-> ExtractionResult(job_id)] \in s3_objects'
          /\ callback_queue' =
                 callback_queue \o CallbacksSent(last'.calls, last'.raised)
          /\ \A m \in 1..Len(CallbacksSent(last'.calls, last'.raised)) :
                LET msg == CallbacksSent(last'.calls, last'.raised)[m]
                IN  /\ msg.output_s3_key = TextKey(msg.job_id)
                    /\ job_table'[msg.job_id].output_s3_key = msg.output_s3_key]_vars

C22_Witness ==
    /\ SqsHandled
    /\ ~last.raised
    /\ Len(last.event) = 2
    /\ \A i \in 1..2 : last.event[i].Status = "SUCCEEDED"
    /\ last.event[1].JobId # last.event[2].JobId
    /\ Len(last.calls) = 9
    /\ last.calls[5].fn = "send_callback"
    /\ Len(callback_queue) = 1

(* whether an earlier record of the event has saved a text for the job *)
SavedEarlier(event, i) ==
    \E h \in 1..(i - 1) :
        event[h].JobId = event[i].JobId /\ event[h].Status = "SUCCEEDED"

LastOfJob(event, i) == \A h \in (i + 1)..Len(event) : event[h].JobId # event[i].JobId

(* C23: for a notification that is not SUCCEEDED the only call is the      *)
(* update of the job record to FAILED, without an output key: no fetch, no *)
(* save, no callback; the records of an event are handled in event order,  *)
(* all of them when the invocation returns.                                *)
C23_OtherStatusMarksFailed ==
    [][last'.op = "sqs_event" =>
          /\ \A i \in 1..Len(last'.event) :
                last'.event[i].Status # "SUCCEEDED" =>
                    LET seg == SegmentOf(job_table, last'.event, last'.calls, i)
                        job_id == last'.event[i].JobId
                    IN  /\ Len(seg) <= 1
                        /\ \A q \in 1..Len(seg) :
                              seg[q] = [fn |-> "update_job_result", job_id |-> job_id,
                                        output_s3_key |-> None,
                                        status |-> JOB_STATUS_FAILED]
                        /\ ~last'.raised => Len(seg) = 1
                        /\ (~last'.raised /\ LastOfJob(last'.event, i)) =>
                              /\ job_table'[job_id].status = JOB_STATUS_FAILED
                              /\ job_table'[job_id].output_s3_key =
                                     IF SavedEarlier(last'.event, i) THEN TextKey(job_id)
                                     ELSE GetJob(job_table, job_id).output_s3_key
          /\ IsPrefix(last'.calls, CallsOfEvent(job_table, last'.event))
          /\ ~last'.raised => last'.calls = CallsOfEvent(job_table, last'.event)
          /\ (\A i \in 1..Len(last'.event) : last'.event[i].Status # "SUCCEEDED") =>
                (s3_objects' = s3_objects /\ callback_queue' = callback_queue)]_vars

C23_Witness ==
    /\ SqsHandled
    /\ ~last.raised
    /\ last.event = <<Notification("job-1", "SUCCEEDED"), Notification("job-2", "FAILED")>>
    /\ last.calls[Len(last.calls)].fn = "update_job_result"
    /\ job_table["job-2"].status = "FAILED"
    /\ job_table["job-2"].output_s3_key = None

(***************************************************************************)
(* C24: lambda_handler of the embeddings generator never raises.  It       *)
(* returns statusCode 200 with the source file, the output file and the    *)
(* chunk count when every step succeeded, and statusCode 500 with an error *)
(* body when the event lacks "bucket" or "key" or any step raised; a 200   *)
(* is returned only for a file whose embeddings are saved under the        *)
(* reported output key.                                                    *)
(***************************************************************************)
LambdaHandled == last.op = "lambda_handler"

EventComplete(event) == event.bucket # Absent /\ event.key # Absent

C24_LambdaHandlerNeverRaises ==
    LambdaHandled =>
       /\ ~last.raised
       /\ last.response.statusCode \in {200, 500}
       /\ (last.response.statusCode = 500) <=>
             \/ ~EventComplete(last.event)
             \/ last.failure # "none"
             \/ FileExtension(last.event.key) = ".doc"
       /\ last.response.statusCode = 500 => "error" \in DOMAIN last.response
       /\ last.response.statusCode = 200 =>
             /\ last.response.source_file = last.event.key
             /\ last.response.output_file = OutputKey(last.event.key)
             /\ last.response.chunk_count = Len(last.chunks)
             /\ \E o \in s3_objects :
                   /\ o.key = last.response.output_file
                   /\ o.body.source_file = last.event.key
                   /\ o.body.chunk_count = Len(last.chunks)

(* a file processed and saved after an earlier invocation failed at the    *)
(* write, and an event without a key answered with 500                     *)
C24_Witness ==
    /\ LambdaHandled
    /\ last.response.statusCode = 500
    /\ last.event.key = Absent
    /\ \E o \in s3_objects : o.key = "embeddings/b_embeddings.json"
                             /\ o.body.chunk_count = 2

(***************************************************************************)
(* C25: add is two steps, vectors first and documents second.  Callers     *)
(* that are not serialized can interleave so that the vector at position i *)
(* is not that of documents[i], or the two sequences differ in length, and *)
(* a search or save sees it.  When add, search and save are serialized,    *)
(* every call starts from, and every search and save sees, a store in      *)
(* which vector i is the embedding of documents[i] and the lengths agree.  *)
(***************************************************************************)
C25_SerializedCallsKeepAlignment ==
    /\ serialized /\ mutex = 0 => VectorsOf(index, documents)
    /\ serialized /\ last.op \in {"add_index", "add", "search", "save"}
          => last.aligned
    /\ \A t \in Threads : threads[t].pc = "extend" =>
          /\ ntotal(index) >= Len(documents) + Len(threads[t].batch)
          /\ \E i \in 0..(ntotal(index) - Len(threads[t].batch)) :
                \A j \in 1..Len(threads[t].batch) :
                    index.xb[i + j] = threads[t].batch[j].embedding

(* two adds interleaved without serialization: both have returned, the     *)
(* lengths agree, the positions do not, the artifacts saved from that      *)
(* state carry the mismatch, and a search has returned a document with the *)
(* distance of another document's vector                                   *)
C25_Witness ==
    /\ ~serialized
    /\ AllIdle
    /\ ntotal(index) = Len(documents)
    /\ \E i \in 1..Len(documents) : index.xb[i] # documents[i].embedding
    /\ disk_index = IndexFile(index)
    /\ disk_docs = DocsFile(documents)
    /\ last.op = "search"
    /\ ~last.raised
    /\ \E r \in 1..Len(last.results) :
          last.results[r].distance
             # L2sqr(last.q, documents[last.results[r].pos].embedding)

(* a search that ran between the two steps of an add: a vector is stored   *)
(* whose document is not                                                   *)
C25_WitnessBetweenSteps ==
    /\ ~serialized
    /\ last.op = "search"
    /\ ntotal(index) > Len(documents)
    /\ Len(last.results) < ntotal(index)
    /\ last.k >= ntotal(index)

(***************************************************************************)
(* C26 as stated: save writes the vector artifact first and the document   *)
(* artifact second; after a crash or failure between the two writes, a     *)
(* later load of the pair on disk yields an index whose vector count and   *)
(* document count differ.                                                  *)
(***************************************************************************)
LoadedTorn == save_state.torn /\ save_state.pc = "idle" /\ last.op = "load"

C26_TornLoadCountsDiffer ==
    LoadedTorn => ntotal(index) # Len(documents)

(***************************************************************************)
(* C26 amended: save writes the vector artifact first and the document     *)
(* artifact second.  After a crash or failure between the two writes the   *)
(* disk holds the new vector artifact with the document artifact that was  *)
(* there before the save, or none.  A later load of that pair gives the    *)
(* store the new vectors with the documents of that earlier artifact, or   *)
(* raises after taking the new vectors when there is no document artifact  *)
(* and keeps the documents the store held; the vector count and the        *)
(* document count differ exactly when the number of vectors written        *)
(* differs from the number of those documents.                             *)
(***************************************************************************)
DocsOnDisk ==
    IF disk_docs.kind = "ok" THEN Len(disk_docs.records) ELSE Len(documents)

C26_TornSaveKeepsEarlierDocuments ==
    /\ [](save_state.pc = "index_written" => disk_index = IndexFile(index))
    /\ [][disk_docs' # disk_docs =>
             /\ save_state.pc = "index_written"
             /\ disk_index' = disk_index
             /\ disk_index = IndexFile(index)
             /\ ~save_state'.torn]_vars
    /\ [][save_state'.torn /\ ~save_state.torn => disk_docs' = disk_docs]_vars
    /\ [](LoadedTorn =>
             /\ index = ReadIndex(disk_index)
             /\ disk_docs.kind = "ok" =>
                   ~last.raised /\ documents = LoadDocuments(disk_docs)
             /\ disk_docs.kind # "ok" => last.raised
             /\ (ntotal(index) # Len(documents))
                   <=> (Len(disk_index.xb) # DocsOnDisk))

(* a torn save over an earlier complete one of another size, loaded by the *)
(* next process: two vectors, one document                                 *)
C26_Witness ==
    /\ LoadedTorn
    /\ ~last.raised
    /\ ntotal(index) = 2
    /\ Len(documents) = 1

(* a torn first save, loaded by the next process: load has raised, the     *)
(* vectors are there and no document is                                    *)
C26_WitnessNoDocuments ==
    /\ LoadedTorn
    /\ last.raised
    /\ disk_docs = NoFile
    /\ ntotal(index) > 0
    /\ documents = <<>>

(***************************************************************************)
(* C27: search, retrieve, generate and save leave the in-memory index      *)
(* unchanged: after any of them, whether it returned or raised, the stored *)
(* vectors, the stored documents (content, metadata, embedding, order) and *)
(* the dimension are what they were before the call.                       *)
(***************************************************************************)
ReadOnlyOps == {"search", "retrieve", "generate", "save"}

C27_ReadOnlyOperationsKeepStore ==
    [][last'.op \in ReadOnlyOps =>
          /\ index' = index
          /\ documents' = documents
          /\ embedding_dim' = embedding_dim]_vars

(* generate_response whose model call failed, on a store of two documents  *)
(* that an earlier save had written in part                                *)
C27_Witness ==
    /\ last.op = "generate"
    /\ last.llm_failed
    /\ Len(last.result.retrieved_documents) = 2
    /\ ntotal(index) = 2
    /\ Len(documents) = 2
    /\ documents[1].embedding # None
    /\ disk_index = IndexFile(index)
    /\ disk_docs = NoFile

(***************************************************************************)
(* C28: the poll of extract_text_from_pdf returns the joined LINE text     *)
(* when the status read is SUCCEEDED, raises when it is FAILED, and, the   *)
(* job having reported a status other than IN_PROGRESS, eventually returns *)
(* or raises instead of polling forever.                                   *)
(***************************************************************************)
PollEnded == poll.pc \in {"returned", "raised"}

Polling == poll.pc \in {"polling", "read"}

C28_PollFinishes ==
    /\ [](poll.pc = "returned" =>
             /\ poll.read = "SUCCEEDED"
             /\ poll.result = ParseBlocks(textract_job.blocks))
    /\ [](poll.pc = "raised" => poll.read \in {"FAILED", "ClientError", "NONE"})
    /\ (Polling /\ textract_job.status \in FinalStatuses) ~> PollEnded

(* what holds of the loop: it ends exactly on SUCCEEDED, FAILED or an      *)
(* error of the call, and once the job has SUCCEEDED or FAILED it ends     *)
C28_PollEndsOnSucceededOrFailed ==
    /\ [](poll.pc = "returned" =>
             /\ poll.read = "SUCCEEDED"
             /\ poll.result = ParseBlocks(textract_job.blocks))
    /\ [](poll.pc = "raised" => poll.read \in {"FAILED", "ClientError", "NONE"})
    /\ (Polling /\ textract_job.status \in {"SUCCEEDED", "FAILED"}) ~> PollEnded

(* the job has ended PARTIAL_SUCCESS, the loop has read that status and is *)
(* about to call again                                                     *)
C28_PollingAfterFinalStatus ==
    /\ poll.pc = "polling"
    /\ poll.read = "PARTIAL_SUCCESS"
    /\ textract_job.status = "PARTIAL_SUCCESS"
    /\ ParseBlocks(textract_job.blocks) = "a\nb"

====
